---- MODULE Spec2Model ----
(***************************************************************************)
(* Model of package mapfile (src/mapfile.go, second revision in the file,  *)
(* lines 386-799): the parser of linker MAP files.                         *)
(*                                                                         *)
(* Strings are TLA+ strings; a character is a string of length one.  Go    *)
(* indices are 0-based, TLA+ indices 1-based: the loop variable i of Parse *)
(* keeps its Go value and lines[i] of the code is lines[i + 1] here.       *)
(* A uint64 is held as its canonical lower-case hexadecimal numeral (no    *)
(* leading zero, "0" for zero), an int as such a numeral with an optional  *)
(* leading "-", so that 64-bit values do not depend on the range of the    *)
(* model checker's integers.                                               *)
(***************************************************************************)
EXTENDS Integers, Sequences, FiniteSets, TLC

\* ------------------------------------------------------------------------
\* Strings: package strings and the slicing of the Go language.
\* ------------------------------------------------------------------------

Char(s, k) == SubSeq(s, k, k)

\* s[lo:] of Go with a 0-based lo.
From(s, lo) == SubSeq(s, lo + 1, Len(s))

\* White space as unicode.IsSpace sees it, restricted to ASCII.
IsSpace(c) == c \in {" ", "\t", "\r", "\n", "\f"}

RECURSIVE TrimLeft(_)
TrimLeft(s) ==
    IF Len(s) = 0 THEN ""
    ELSE IF IsSpace(Char(s, 1)) THEN TrimLeft(From(s, 1)) ELSE s

RECURSIVE TrimRight(_)
TrimRight(s) ==
    IF Len(s) = 0 THEN ""
    ELSE IF IsSpace(Char(s, Len(s))) THEN TrimRight(SubSeq(s, 1, Len(s) - 1)) ELSE s

\* strings.TrimSpace
TrimSpace(s) == TrimRight(TrimLeft(s))

\* strings.HasPrefix
HasPrefix(s, prefix) ==
    /\ Len(s) >= Len(prefix)
    /\ SubSeq(s, 1, Len(prefix)) = prefix

\* strings.HasSuffix
HasSuffix(s, suffix) ==
    /\ Len(s) >= Len(suffix)
    /\ SubSeq(s, Len(s) - Len(suffix) + 1, Len(s)) = suffix

\* strings.TrimPrefix
TrimPrefix(s, prefix) == IF HasPrefix(s, prefix) THEN From(s, Len(prefix)) ELSE s

\* strings.TrimSuffix: removes the suffix once, if present.
TrimSuffix(s, suffix) ==
    IF HasSuffix(s, suffix) THEN SubSeq(s, 1, Len(s) - Len(suffix)) ELSE s

\* Number of leading characters of s that are not white space.
RECURSIVE WordLen(_)
WordLen(s) ==
    IF Len(s) = 0 \/ IsSpace(Char(s, 1)) THEN 0 ELSE 1 + WordLen(From(s, 1))

\* strings.Fields: the maximal runs of non-space characters.
RECURSIVE Fields(_)
RECURSIVE FieldsOf(_)
Fields(s) == FieldsOf(TrimLeft(s))
\* The fields of a text t that does not start with white space.
FieldsOf(t) ==
    IF Len(t) = 0 THEN << >>
    ELSE <<SubSeq(t, 1, WordLen(t))>> \o Fields(From(t, WordLen(t)))

\* Number of leading characters of s that differ from the character sep.
RECURSIVE IndexOf(_, _)
IndexOf(s, sep) ==
    IF Len(s) = 0 \/ Char(s, 1) = sep THEN 0 ELSE 1 + IndexOf(From(s, 1), sep)

\* strings.Split with a one-character separator: splits at EVERY separator.
RECURSIVE Split(_, _)
Split(s, sep) ==
    IF IndexOf(s, sep) = Len(s) THEN <<s>>
    ELSE <<SubSeq(s, 1, IndexOf(s, sep))>> \o Split(From(s, IndexOf(s, sep) + 1), sep)

\* ------------------------------------------------------------------------
\* Results of the helper functions: a value with a nil error, a returned
\* error, or a run-time panic (index or slice bounds out of range, or the
\* explicit panic of parseSymbol).
\* ------------------------------------------------------------------------

Ok(v) == [kind |-> "ok", val |-> v, msg |-> ""]
Err(msg) == [kind |-> "err", val |-> "", msg |-> msg]
Panic(msg) == [kind |-> "panic", val |-> "", msg |-> msg]

ErrSyntax == "strconv.ParseUint: invalid syntax"
ErrRange == "strconv.ParseUint: value out of range"
ErrTime == "parsing time: cannot parse"
ErrSeparator == "unexpected line between header and list of symbols"
ErrReader == "reader error"
ErrFile == "file error"
PanicIndex == "index out of range"
PanicSlice == "slice bounds out of range"
PanicSymbolType == "support for symbol type not yet implemented"

\* ------------------------------------------------------------------------
\* Numbers: strconv.ParseUint(s, 16, 64) and the conversion int(uint64).
\* ------------------------------------------------------------------------

\* bitSize argument of every strconv.ParseUint call.
BitSize == 64
\* Width of the Go type int on the 64-bit platforms (amd64, arm64).
IntBits == 64

HexLower == "0123456789abcdef"
HexUpper == "0123456789ABCDEF"

IsHexDigit(c) == \E k \in 1..16 : Char(HexLower, k) = c \/ Char(HexUpper, k) = c
DigitVal(c) == (CHOOSE k \in 1..16 : Char(HexLower, k) = c \/ Char(HexUpper, k) = c) - 1
HexDigit(d) == Char(HexLower, d + 1)

\* Strips leading zeros; the numeral of zero is "0".
RECURSIVE Canon(_)
Canon(s) ==
    IF Len(s) = 0 THEN "0"
    ELSE IF Len(s) > 1 /\ Char(s, 1) = "0" THEN Canon(From(s, 1)) ELSE s

\* The significant digits acc followed by the digit c.
PushDigit(acc, c) ==
    IF acc = "" /\ DigitVal(c) = 0 THEN "" ELSE acc \o HexDigit(DigitVal(c))

\* The digit loop of strconv.ParseUint: left to right, the first offending
\* character decides the error.  acc holds the significant digits read.
RECURSIVE ParseUintFrom(_, _)
ParseUintFrom(s, acc) ==
    IF Len(s) = 0 THEN Ok(Canon(acc))
    ELSE IF ~IsHexDigit(Char(s, 1)) THEN Err(ErrSyntax)
    ELSE IF Len(PushDigit(acc, Char(s, 1))) * 4 > BitSize THEN Err(ErrRange)
    ELSE ParseUintFrom(From(s, 1), PushDigit(acc, Char(s, 1)))

ParseUint(s) == IF Len(s) = 0 THEN Err(ErrSyntax) ELSE ParseUintFrom(s, "")

RECURSIVE Complement(_)
Complement(s) ==
    IF Len(s) = 0 THEN ""
    ELSE HexDigit(15 - DigitVal(Char(s, 1))) \o Complement(From(s, 1))

RECURSIVE AddOne(_)
AddOne(s) ==
    IF Len(s) = 0 THEN "1"
    ELSE IF DigitVal(Char(s, Len(s))) < 15
         THEN SubSeq(s, 1, Len(s) - 1) \o HexDigit(DigitVal(Char(s, Len(s))) + 1)
         ELSE AddOne(SubSeq(s, 1, Len(s) - 1)) \o "0"

\* The low `digits` hexadecimal digits of u.
LowDigits(u, digits) ==
    IF Len(u) > digits THEN SubSeq(u, Len(u) - digits + 1, Len(u)) ELSE u

\* The numeral low of `digits` digits at most, read as two's complement.
Signed(low, digits) ==
    IF Len(low) = digits /\ DigitVal(Char(low, 1)) >= 8
    THEN "-" \o Canon(AddOne(Complement(low)))
    ELSE Canon(low)

\* int(u) for a uint64 u: the low IntBits bits, read as two's complement.
ToInt(u) == Signed(LowDigits(u, IntBits \div 4), IntBits \div 4)

\* ------------------------------------------------------------------------
\* time.Parse(time.ANSIC, value), layout "Mon Jan _2 15:04:05 2006": each
\* element of the layout consumes the front of what is left of the value.
\* ------------------------------------------------------------------------

Lower == "abcdefghijklmnopqrstuvwxyz"
Upper == "ABCDEFGHIJKLMNOPQRSTUVWXYZ"
Digits == "0123456789"

IsDigit(s, k) == k <= Len(s) /\ \E d \in 1..10 : Char(Digits, d) = Char(s, k)
DecVal(c) == (CHOOSE d \in 1..10 : Char(Digits, d) = c) - 1

FoldChar(c) ==
    IF \E k \in 1..26 : Char(Upper, k) = c
    THEN Char(Lower, CHOOSE k \in 1..26 : Char(Upper, k) = c)
    ELSE c

RECURSIVE Fold(_)
Fold(s) == IF Len(s) = 0 THEN "" ELSE FoldChar(Char(s, 1)) \o Fold(From(s, 1))

ShortDayNames == <<"sun", "mon", "tue", "wed", "thu", "fri", "sat">>
ShortMonthNames == <<"jan", "feb", "mar", "apr", "may", "jun",
                     "jul", "aug", "sep", "oct", "nov", "dec">>

\* Position of the name in tab, 0 when it is none of them.
NameIndex(tab, name) ==
    IF \E k \in 1..Len(tab) : tab[k] = name
    THEN CHOOSE k \in 1..Len(tab) : tab[k] = name
    ELSE 0

\* lookup of package time: a case-insensitive match of a leading name.
Lookup(tab, value) ==
    IF Len(value) < 3 THEN 0 ELSE NameIndex(tab, Fold(SubSeq(value, 1, 3)))

RECURSIVE CutSpace(_)
CutSpace(s) == IF Len(s) > 0 /\ Char(s, 1) = " " THEN CutSpace(From(s, 1)) ELSE s

\* getnum: one or two decimal digits, two when fixed; -1 when there is none.
GetNum(s, fixed) ==
    IF ~IsDigit(s, 1) THEN -1
    ELSE IF ~IsDigit(s, 2) THEN (IF fixed THEN -1 ELSE DecVal(Char(s, 1)))
    ELSE DecVal(Char(s, 1)) * 10 + DecVal(Char(s, 2))

\* Number of leading decimal digits of s.
RECURSIVE DigitRun(_)
DigitRun(s) == IF IsDigit(s, 1) THEN 1 + DigitRun(From(s, 1)) ELSE 0

\* The fractional second that Parse accepts after the seconds although the
\* layout has none: a period or comma followed by digits.
CutFraction(s) ==
    IF Len(s) >= 2 /\ Char(s, 1) \in {".", ","} /\ IsDigit(s, 2)
    THEN From(s, 1 + DigitRun(From(s, 1)))
    ELSE s

IsLeap(y) == y % 4 = 0 /\ (y % 100 # 0 \/ y % 400 = 0)
DaysIn(month, y) ==
    IF month = 2 THEN (IF IsLeap(y) THEN 29 ELSE 28)
    ELSE IF month \in {4, 6, 9, 11} THEN 30 ELSE 31

\* The zero time.Time.
ZeroTime == [year |-> 1, month |-> 1, day |-> 1, hour |-> 0, min |-> 0, sec |-> 0]

\* The state of time.Parse: whether it still succeeds, the rest of the
\* value, the fields read.
TimeStart(value) == [ok |-> TRUE, rest |-> value, t |-> ZeroTime, weekday |-> 0]
TimeFail(st) == [st EXCEPT !.ok = FALSE]

\* stdWeekDay "Mon"
TimeWeekDayAt(st, k) ==
    IF k = 0 THEN TimeFail(st) ELSE [st EXCEPT !.weekday = k, !.rest = From(st.rest, 3)]
TimeWeekDay(st) == IF ~st.ok THEN st ELSE TimeWeekDayAt(st, Lookup(ShortDayNames, st.rest))

\* stdMonth "Jan"
TimeMonthAt(st, k) ==
    IF k = 0 THEN TimeFail(st) ELSE [st EXCEPT !.t.month = k, !.rest = From(st.rest, 3)]
TimeMonth(st) == IF ~st.ok THEN st ELSE TimeMonthAt(st, Lookup(ShortMonthNames, st.rest))

\* skip(value, " "): a space of the layout stands for any run of spaces, and
\* for none at the end of the value.
TimeSpace(st) ==
    IF ~st.ok THEN st
    ELSE IF Len(st.rest) > 0 /\ Char(st.rest, 1) # " " THEN TimeFail(st)
    ELSE [st EXCEPT !.rest = CutSpace(st.rest)]

\* skip(value, ":")
TimeColon(st) ==
    IF ~st.ok THEN st
    ELSE IF Len(st.rest) > 0 /\ Char(st.rest, 1) = ":"
         THEN [st EXCEPT !.rest = From(st.rest, 1)]
         ELSE TimeFail(st)

\* A number of the layout: std_Day "_2", stdHour "15", stdZeroMinute "04",
\* stdZeroSecond "05"; limit is the first value out of range.
TimeNumAt(st, field, n, limit) ==
    IF n < 0 \/ n >= limit THEN TimeFail(st)
    ELSE [st EXCEPT !.t[field] = n, !.rest = From(st.rest, IF n >= 10 \/ IsDigit(st.rest, 2) THEN 2 ELSE 1)]
TimeNum(st, field, fixed, limit) ==
    IF ~st.ok THEN st ELSE TimeNumAt(st, field, GetNum(st.rest, fixed), limit)

TimeFraction(st) == IF ~st.ok THEN st ELSE [st EXCEPT !.rest = CutFraction(st.rest)]

\* stdLongYear "2006": four digits.
TimeYear(st) ==
    IF ~st.ok THEN st
    ELSE IF Len(st.rest) < 4 \/ \E k \in 1..4 : ~IsDigit(st.rest, k) THEN TimeFail(st)
    ELSE [st EXCEPT !.t.year = DecVal(Char(st.rest, 1)) * 1000 + DecVal(Char(st.rest, 2)) * 100
                                + DecVal(Char(st.rest, 3)) * 10 + DecVal(Char(st.rest, 4)),
                    !.rest = From(st.rest, 4)]

\* The end of the layout: no text may be left, and the day must exist.
TimeEnd(st) ==
    IF ~st.ok THEN Err(ErrTime)
    ELSE IF Len(st.rest) > 0 THEN Err(ErrTime)
    ELSE IF st.t.day < 1 \/ st.t.day > DaysIn(st.t.month, st.t.year) THEN Err(ErrTime)
    ELSE Ok(st.t)

\* "Mon Jan _2"
TimeDate(st) ==
    TimeNum(TimeSpace(TimeMonth(TimeSpace(TimeWeekDay(st)))), "day", FALSE, 100)

\* " 15:04:05"
TimeClock(st) ==
    TimeNum(TimeColon(TimeNum(TimeColon(TimeNum(TimeSpace(st), "hour", FALSE, 24)),
                              "min", TRUE, 60)),
            "sec", TRUE, 60)

ParseANSIC(value) ==
    TimeEnd(TimeYear(TimeSpace(TimeFraction(TimeClock(TimeDate(TimeStart(value)))))))

\* ------------------------------------------------------------------------
\* Segment offsets, sections and symbols.
\* ------------------------------------------------------------------------

\* SegmentOffset{}: the zero value.
ZeroSegmentOffset == [SegNum |-> "0", Offset |-> "0"]

\* The body of parseSegmentOffset, given the results of its two ParseUint
\* calls: parts[1] of the code is read without a length check.
segmentOffsetFrom(nparts, segNum, offset) ==
    IF segNum.kind # "ok" THEN Err(segNum.msg)
    ELSE IF nparts < 2 THEN Panic(PanicIndex)
    ELSE IF offset.kind # "ok" THEN Err(offset.msg)
    ELSE Ok([SegNum |-> ToInt(segNum.val), Offset |-> offset.val])

segmentOffsetOf(parts) ==
    segmentOffsetFrom(Len(parts), ParseUint(parts[1]), ParseUint(parts[2]))

\* parseSegmentOffset: strings.Split cuts the text at every colon.
parseSegmentOffset(s) == segmentOffsetOf(Split(s, ":"))

\* SectionTypeFromString (generated by string2enum; not among the sources).
SectionTypeFromString(s) ==
    IF s = "CODE" THEN "Code" ELSE IF s = "DATA" THEN "Data" ELSE "unknown"

\* The body of parseSection, given the results of parseSegmentOffset and
\* ParseUint: fields[1..3] of the code are read without a length check.
sectionFrom(fields, start, size) ==
    IF Len(fields) < 1 THEN Panic(PanicIndex)
    ELSE IF start.kind # "ok" THEN start
    ELSE IF Len(fields) < 2 THEN Panic(PanicIndex)
    ELSE IF size.kind # "ok" THEN Err(size.msg)
    ELSE IF Len(fields) < 4 THEN Panic(PanicIndex)
    ELSE Ok([Name |-> fields[3], Start |-> start.val, Size |-> ToInt(size.val),
             Type |-> SectionTypeFromString(fields[4])])

sectionOf(fields) ==
    sectionFrom(fields, parseSegmentOffset(fields[1]),
                ParseUint(TrimSuffix(fields[2], "H")))

\* parseSection
parseSection(s) == sectionOf(Fields(s))

\* Mutant of symbolFrom: a tag other than "f" is ignored, not rejected.
symbolFromAnyTag(fields, start, addr) ==
    IF Len(fields) < 1 THEN Panic(PanicIndex)
    ELSE IF start.kind # "ok" THEN start
    ELSE IF Len(fields) < 3 THEN Panic(PanicIndex)
    ELSE IF addr.kind # "ok" THEN Err(addr.msg)
    ELSE Ok([Name |-> "", MangledName |-> fields[2], Addr |-> addr.val,
             Start |-> start.val, ObjectName |-> fields[Len(fields)],
             IsFunc |-> (Len(fields) = 5 /\ fields[4] = "f"), IsStatic |-> FALSE])

\* The body of parseSymbol, given the results of parseSegmentOffset and
\* ParseUint; IsStatic is left false, as in the code (parseSymbols sets it).
symbolFrom(fields, start, addr) ==
    IF Len(fields) < 1 THEN Panic(PanicIndex)
    ELSE IF start.kind # "ok" THEN start
    ELSE IF Len(fields) < 3 THEN Panic(PanicIndex)
    ELSE IF addr.kind # "ok" THEN Err(addr.msg)
    ELSE IF Len(fields) = 5 /\ fields[4] # "f" THEN Panic(PanicSymbolType)
    ELSE Ok([Name |-> "", MangledName |-> fields[2], Addr |-> addr.val,
             Start |-> start.val, ObjectName |-> fields[Len(fields)],
             IsFunc |-> (Len(fields) = 5), IsStatic |-> FALSE])

symbolOf(fields) ==
    symbolFrom(fields, parseSegmentOffset(fields[1]), ParseUint(fields[3]))

\* parseSymbol
parseSymbol(s) == symbolOf(Fields(s))

\* Result of parseSections and parseSymbols: the list, the count n of lines
\* consumed (the Go index of the line the scan stopped at) and the error.
BlockOk(list, n) == [kind |-> "ok", list |-> list, n |-> n, msg |-> ""]
BlockErr(n, msg) == [kind |-> "err", list |-> << >>, n |-> n, msg |-> msg]
BlockPanic(n, msg) == [kind |-> "panic", list |-> << >>, n |-> n, msg |-> msg]

RECURSIVE SectionsLoop(_, _, _)
RECURSIVE SectionsNext(_, _, _, _)

\* Mutant of SectionsLoop: a list that the end of the input cuts short is an
\* error.
SectionsLoopStrict(ls, n, sects) ==
    IF n >= Len(ls) THEN BlockErr(n, "unexpected end of input")
    ELSE IF Len(ls[n + 1]) = 0 THEN BlockOk(sects, n)
    ELSE SectionsNext(ls, n, sects, parseSection(ls[n + 1]))

\* The loop of parseSections, from Go index n on.
SectionsLoop(ls, n, sects) ==
    IF n >= Len(ls) \/ Len(ls[n + 1]) = 0 THEN BlockOk(sects, n)
    ELSE SectionsNext(ls, n, sects, parseSection(ls[n + 1]))

\* The rest of an iteration of parseSections, given the result of parseSection.
SectionsNext(ls, n, sects, sect) ==
    IF sect.kind = "err" THEN BlockErr(n, sect.msg)
    ELSE IF sect.kind = "panic" THEN BlockPanic(n, sect.msg)
    ELSE SectionsLoop(ls, n + 1, Append(sects, sect.val))

\* parseSections(lines[i:])
parseSections(ls) == SectionsLoop(ls, 1, << >>)

RECURSIVE SymbolsLoop(_, _, _, _)
RECURSIVE SymbolsNext(_, _, _, _, _)

\* Mutant of SymbolsNext: IsStatic is not set.
SymbolsNextNoStatic(ls, n, isStatic, syms, sym) ==
    IF sym.kind = "err" THEN BlockErr(n, sym.msg)
    ELSE IF sym.kind = "panic" THEN BlockPanic(n, sym.msg)
    ELSE SymbolsLoop(ls, n + 1, isStatic, Append(syms, sym.val))

\* The loop of parseSymbols, from Go index n on.
SymbolsLoop(ls, n, isStatic, syms) ==
    IF n >= Len(ls) \/ Len(ls[n + 1]) = 0 THEN BlockOk(syms, n)
    ELSE SymbolsNext(ls, n, isStatic, syms, parseSymbol(ls[n + 1]))

\* The rest of an iteration of parseSymbols, given the result of parseSymbol.
SymbolsNext(ls, n, isStatic, syms, sym) ==
    IF sym.kind = "err" THEN BlockErr(n, sym.msg)
    ELSE IF sym.kind = "panic" THEN BlockPanic(n, sym.msg)
    ELSE SymbolsLoop(ls, n + 1, isStatic,
                     Append(syms, [sym.val EXCEPT !.IsStatic = isStatic]))

\* parseSymbols(lines[i:]): lines[1] of the code is read without a length
\* check.
parseSymbols(ls) ==
    IF Len(ls) < 2 THEN BlockPanic(1, PanicIndex)
    ELSE IF Len(ls[2]) # 0 THEN BlockErr(1, ErrSeparator)
    ELSE SymbolsLoop(ls, 2, HasPrefix(ls[1], "Static symbols"), << >>)

\* hasFields
hasFields(line, fields) == Fields(line) = fields

SectionsHeader == <<"Start", "Length", "Name", "Class">>
PublicsHeader == <<"Address", "Publics", "by", "Value", "Rva+Base", "Lib:Object">>

\* Mutant of Dispatch: the keywords are looked at before the position.
DispatchKeywordFirst(i, line) ==
    IF HasPrefix(line, "Timestamp is ") THEN "timestamp"
    ELSE IF HasPrefix(line, "Preferred load address is ") THEN "baseaddr"
    ELSE IF hasFields(line, SectionsHeader) THEN "sections"
    ELSE IF hasFields(line, PublicsHeader) THEN "symbols"
    ELSE IF HasPrefix(line, "Static symbols") THEN "symbols"
    ELSE IF HasPrefix(line, "entry point at") THEN "entry"
    ELSE IF HasPrefix(line, "FIXUPS:") THEN "fixups"
    ELSE IF i = 0 THEN "name"
    ELSE IF Len(line) = 0 THEN "blank"
    ELSE "default"

\* The switch of Parse: the first case, in source order, that matches.
Dispatch(i, line) ==
    IF i = 0 THEN "name"
    ELSE IF HasPrefix(line, "Timestamp is ") THEN "timestamp"
    ELSE IF HasPrefix(line, "Preferred load address is ") THEN "baseaddr"
    ELSE IF hasFields(line, SectionsHeader) THEN "sections"
    ELSE IF hasFields(line, PublicsHeader) THEN "symbols"
    ELSE IF HasPrefix(line, "Static symbols") THEN "symbols"
    ELSE IF HasPrefix(line, "entry point at") THEN "entry"
    ELSE IF HasPrefix(line, "FIXUPS:") THEN "fixups"
    ELSE IF Len(line) = 0 THEN "blank"
    ELSE "default"

\* &Map{}
EmptyMap == [Name |-> "", Date |-> ZeroTime, BaseAddr |-> "0",
             Entry |-> ZeroSegmentOffset, Sects |-> << >>, Syms |-> << >>]

\* ------------------------------------------------------------------------
\* The cases of the switch of Parse, each as a function of the Map built so
\* far and of the lines it reads.  A step yields the new Map and the number
\* adv that the case adds to i (the loop statement adds one more), or the
\* error it returns, or the panic it raises.
\* ------------------------------------------------------------------------

StepOk(m, adv) == [kind |-> "ok", m |-> m, adv |-> adv, msg |-> ""]
StepErr(m, adv, msg) == [kind |-> "err", m |-> m, adv |-> adv, msg |-> msg]
StepPanic(m, adv, msg) == [kind |-> "panic", m |-> m, adv |-> adv, msg |-> msg]

\* case i == 0
caseName(m, line) == StepOk([m EXCEPT !.Name = line], 0)

\* len("Timestamp is 5e97f112 (")
TimestampSkip == 23

\* m.Date = date, or the error of time.Parse.
timestampStep(m, date) ==
    IF date.kind # "ok" THEN StepErr(m, 0, date.msg)
    ELSE StepOk([m EXCEPT !.Date = date.val], 0)

\* case strings.HasPrefix(line, "Timestamp is "): the slice expression
\* line[23 : len(line)-1] panics when 23 > len(line)-1.
caseTimestamp(m, line) ==
    IF TimestampSkip > Len(line) - 1 THEN StepPanic(m, 0, PanicSlice)
    ELSE timestampStep(m, ParseANSIC(SubSeq(line, TimestampSkip + 1, Len(line) - 1)))

\* m.BaseAddr = baseAddr, or the error of strconv.ParseUint.
baseAddrStep(m, baseAddr) ==
    IF baseAddr.kind # "ok" THEN StepErr(m, 0, baseAddr.msg)
    ELSE StepOk([m EXCEPT !.BaseAddr = baseAddr.val], 0)

\* case strings.HasPrefix(line, "Preferred load address is ")
caseBaseAddr(m, line) ==
    baseAddrStep(m, ParseUint(From(line, Len("Preferred load address is "))))

\* Mutant of sectionsStep: i += n, which steps over the line that ends the
\* list.
sectionsStepSkip(m, r) ==
    IF r.kind = "err" THEN StepErr(m, r.n, r.msg)
    ELSE IF r.kind = "panic" THEN StepPanic(m, r.n, r.msg)
    ELSE StepOk([m EXCEPT !.Sects = m.Sects \o r.list], r.n)

\* m.Sects = append(m.Sects, sects...); i += n - 1
sectionsStep(m, r) ==
    IF r.kind = "err" THEN StepErr(m, r.n, r.msg)
    ELSE IF r.kind = "panic" THEN StepPanic(m, r.n, r.msg)
    ELSE StepOk([m EXCEPT !.Sects = m.Sects \o r.list], r.n - 1)

\* case hasFields(line, {"Start", "Length", "Name", "Class"}); ls is lines[i:].
caseSections(m, ls) == sectionsStep(m, parseSections(ls))

\* m.Syms = append(m.Syms, syms...); i += n - 1
symbolsStep(m, r) ==
    IF r.kind = "err" THEN StepErr(m, r.n, r.msg)
    ELSE IF r.kind = "panic" THEN StepPanic(m, r.n, r.msg)
    ELSE StepOk([m EXCEPT !.Syms = m.Syms \o r.list], r.n - 1)

\* The two symbol cases (the first falls through to the second); ls is
\* lines[i:].
caseSymbols(m, ls) == symbolsStep(m, parseSymbols(ls))

\* m.Entry = entry, or the error of parseSegmentOffset.
entryStep(m, entry) ==
    IF entry.kind = "err" THEN StepErr(m, 0, entry.msg)
    ELSE IF entry.kind = "panic" THEN StepPanic(m, 0, entry.msg)
    ELSE StepOk([m EXCEPT !.Entry = entry.val], 0)

\* case strings.HasPrefix(line, "entry point at")
caseEntry(m, line) ==
    entryStep(m, parseSegmentOffset(TrimSpace(TrimPrefix(line, "entry point at"))))

\* case "FIXUPS:" and case len(line) == 0 leave the Map alone.
caseSkip(m, line) == StepOk(m, 0)

\* Mutant of caseDefault: a line that is not recognized ends the parse.
caseDefaultFatal(m, line) == StepErr(m, 0, "support for line prefix not yet implemented")

\* default: the line is logged, the Map left alone.
caseDefault(m, line) == StepOk(m, 0)

\* A nil pointer or nil error is the empty sequence, a non-nil one a
\* sequence of one element.
Nil == << >>

\* Mutant of ReturnErr: the Map built so far is returned with the error.
ReturnErrPartial(m, msg) == [map |-> <<m>>, err |-> <<msg>>]

\* return nil, errors.WithStack(err)
ReturnErr(m, msg) == [map |-> Nil, err |-> <<msg>>]

\* return m, nil
ReturnOk(m) == [map |-> <<m>>, err |-> Nil]

\* Nothing returned: Parse still runs, or it panicked.
NoReturn == [map |-> Nil, err |-> Nil]

\* ------------------------------------------------------------------------
\* Inputs: the texts handed to Parse, each as the sequence of its raw lines
\* (the tokens of bufio.Scanner, before strings.TrimSpace).
\* ------------------------------------------------------------------------

\* Longest sequence of chunks after the name line.
MaxChunks == 2
\* Longest segment-offset text enumerated over SegAlphabet.
MaxSegLen == 3

SectHeaderLine == "Start         Length     Name                   Class"
PubHeaderLine == " Address         Publics by Value              Rva+Base   Lib:Object"
StaticHeaderLine == " Static symbols"
TimestampLine == "Timestamp is 5e97f112 (Wed Apr 15 22:45:54 2020)"

\* Pieces of a MAP file: single lines, whole blocks, and broken blocks.
Chunks == {
    <<"">>,
    <<TimestampLine>>,
    <<"Preferred load address is 00400000">>,
    <<"Preferred load address is ZZZZ">>,
    <<SectHeaderLine,
      " 0001:00000000 001012c6H .text                   CODE",
      " 0002:00000000 00007c18H .rdata                  DATA",
      "">>,
    <<SectHeaderLine, " 0003:00000000 000000a0H .data DATA">>,
    <<PubHeaderLine, "",
      " 0001:00000000       ?bar@@YIXH@Z               00401000 f baz.obj",
      " 0002:00000058       ?qux@@3PBDB                00503058   baz.obj",
      "">>,
    <<StaticHeaderLine, "",
      " 0001:000dc1c2       ?quux@@YIXXZ        004dd1c2 f quuz.obj">>,
    <<"Address Publics by Value Rva+Base Lib:Object">>,
    <<"Static symbols", "">>,
    <<" 0004:00000000 __IMPORT_DESCRIPTOR_KERNEL32 00731000 kernel32:KERNEL32.dll">>,
    <<"entry point at        0001:000f0290">>,
    <<"FIXUPS: 101506 21 13 21 15">>,
    <<"Line numbers for baz.obj(baz.cpp) segment .text">>
}

RECURSIVE Flatten(_)
Flatten(cs) == IF Len(cs) = 0 THEN << >> ELSE Head(cs) \o Flatten(Tail(cs))

\* The sequences of P and those of its longest ones with one more chunk.
Longer(P, n) == P \cup {Append(cs, c) : cs \in {x \in P : Len(x) = n - 1}, c \in Chunks}

RECURSIVE ChunkSeqs(_)
ChunkSeqs(n) == IF n = 0 THEN {<< >>} ELSE Longer(ChunkSeqs(n - 1), n)

\* A name line followed by up to MaxChunks chunks.
ChunkTexts == {<<"FOO">> \o Flatten(cs) : cs \in ChunkSeqs(MaxChunks)}

\* First lines that look like keyword lines, followed by at most one chunk.
NameLines == {"  foo.exe\t", "", "Timestamp is ", "Preferred load address is ZZZZ",
              SectHeaderLine, PubHeaderLine, "Static symbols", "entry point at",
              "FIXUPS:"}
NameTexts == {<<name>> \o Flatten(cs) : name \in NameLines, cs \in ChunkSeqs(1)}

\* The texts of P and those of its longest ones with one more character.
LongerText(P, alphabet, n) ==
    P \cup {s \o c : s \in {x \in P : Len(x) = n - 1}, c \in alphabet}

RECURSIVE Strings(_, _)
Strings(alphabet, n) ==
    IF n = 0 THEN {""} ELSE LongerText(Strings(alphabet, n - 1), alphabet, n)

SegAlphabet == {"1", "f", ":", "G"}

\* Entry-point lines over every short text of SegAlphabet.
EntryTexts == {<<"FOO", "entry point at " \o s>> : s \in Strings(SegAlphabet, MaxSegLen)}

\* Every proper prefix of the example timestamp line that keeps the keyword,
\* and variants of its stamp and date.
TimestampLines ==
    {SubSeq(TimestampLine, 1, n) : n \in Len("Timestamp is ")..Len(TimestampLine)}
    \cup {"Timestamp is 5e97f1 (Wed Apr 15 22:45:54 2020)",
          "Timestamp is 5e97f11200 (Wed Apr 15 22:45:54 2020)",
          "Timestamp is 5e97 (XXXXWed Apr 15 22:45:54 2020)",
          "Timestamp is 5e97f112  Wed Apr 15 22:45:54 2020 ",
          "Timestamp is 5e97f112 (Wed Apr 31 22:45:54 2020)",
          "Timestamp is 5e97f112 (Sun Feb  9 07:05:09 2020)",
          "Timestamp is 5e97f112 (2020-04-15 22:45:54)"}
TimestampTexts == {<<"FOO", "", l>> : l \in TimestampLines}

\* Section and symbol lines over variants of each field.
StartFields == {"0001:00000000", "0001", "ZZZZ", "0001:ZZ", "ZZ:0001", "1:2:ZZ", "1:2:3", ":"}
SizeFields == {"001012c6H", "10", "ZZH", "10HH", "H", "FFFFFFFFFFFFFFFFH",
               "10000000000000000H", "7fffffffffffffffH", "8000000000000000H"}
AddrFields == {"00401000", "ZZ", ""}
TagFields == {"", " f", " i"}

SectionLines ==
    {start \o " " \o size \o " .text CODE" : start \in StartFields, size \in {"001012c6H"}}
    \cup {"0001:00000000 " \o size \o " .bss BSS" : size \in SizeFields}
    \cup {"0001:00000000", "0001:00000000 10H", "0001:00000000 10H .text",
          "0001:00000000 10H .text CODE extra"}
SymbolLines ==
    {start \o " _x " \o addr \o tag \o " baz.obj" :
        start \in {"0001:00000010", "ZZ:0", "0001"}, addr \in AddrFields, tag \in TagFields}
    \cup {start \o " _y 00401000 f baz.obj" : start \in StartFields}
    \cup {"0001:00000010", "0001:00000010 _x", "0001:00000010 _x 00401000",
          "0001:00000010 _x 00401000 f g baz.obj"}

LineTexts ==
    {<<"FOO", SectHeaderLine, " 0001:00000000 10H .text CODE", l>> : l \in SectionLines}
    \cup {<<"FOO", hdr, "", " 0001:00000000 _a 00401000 baz.obj", l, "", "entry point at 1:2">> :
            hdr \in {PubHeaderLine, StaticHeaderLine}, l \in SymbolLines}

\* Blocks in every order, the static symbols before the public ones too.
BlockTexts ==
    {<<"FOO">> \o a \o b \o c :
        a, b, c \in {<<SectHeaderLine, "1:0 10H .text CODE", "">>,
                     <<PubHeaderLine, "", "1:0 _a 401000 f a.obj", "1:4 _b 401004 a.obj", "">>,
                     <<"Static symbols", "", "1:8 _c 401008 f a.obj", "">>,
                     <<"Static symbols", "", "1:c _d 40100c a.obj">>}}

Inputs == {<< >>} \cup ChunkTexts \cup NameTexts \cup EntryTexts \cup TimestampTexts
          \cup LineTexts \cup BlockTexts

\* ------------------------------------------------------------------------
\* State.
\* ------------------------------------------------------------------------

VARIABLES
    text,       \* the input: the raw lines the reader yields
    lines,      \* lines of Parse: the trimmed lines
    i,          \* loop variable of Parse (a Go index)
    m,          \* the Map under construction
    pc,         \* "open" (ParseFile), "read" (readLines), "loop" (the for loop), "done"
    outcome,    \* "running", "ok" (Map returned), "error" (error returned), "panic"
    ret,        \* what Parse returned: [map, err]
    panicMsg,   \* Nil, or the message of the panic that ended Parse
    warnings,   \* lines logged through warn.Printf
    trace,      \* history: the lines read so far, <<Go index, role>> each
    sectSrc,    \* history: Go index of the line each element of m.Sects came from
    symSrc      \* history: Go index of the line each element of m.Syms came from

vars == <<text, lines, i, m, pc, outcome, ret, panicMsg, warnings, trace, sectSrc, symSrc>>

Init ==
    /\ text \in Inputs
    /\ lines = << >>
    /\ i = 0
    /\ m = EmptyMap
    /\ pc = "open"
    /\ outcome = "running"
    /\ ret = NoReturn
    /\ panicMsg = Nil
    /\ warnings = << >>
    /\ trace = << >>
    /\ sectSrc = << >>
    /\ symSrc = << >>

\* ParseFile: ioutil.ReadFile yields the text, and ParseBytes hands it to
\* Parse (ParseString and ParseBytes start here).
ReadFile ==
    /\ pc = "open"
    /\ pc' = "read"
    /\ UNCHANGED <<text, lines, i, m, outcome, ret, panicMsg, warnings, trace, sectSrc, symSrc>>

\* ParseFile: ioutil.ReadFile fails, return nil and the error.
ReadFileErr ==
    /\ pc = "open"
    /\ pc' = "done"
    /\ outcome' = "error"
    /\ ret' = ReturnErr(m, ErrFile)
    /\ UNCHANGED <<text, lines, i, m, panicMsg, warnings, trace, sectSrc, symSrc>>

\* readLines: every line of the reader, trimmed.
readLines(t) == [k \in 1..Len(t) |-> TrimSpace(t[k])]

ReadLines ==
    /\ pc = "read"
    /\ lines' = readLines(text)
    /\ pc' = "loop"
    /\ UNCHANGED <<text, i, m, outcome, ret, panicMsg, warnings, trace, sectSrc, symSrc>>

\* The reader fails (s.Err() is not nil): Parse returns nil and the error.
ReadLinesErr ==
    /\ pc = "read"
    /\ pc' = "done"
    /\ outcome' = "error"
    /\ ret' = ReturnErr(m, ErrReader)
    /\ UNCHANGED <<text, lines, i, m, panicMsg, warnings, trace, sectSrc, symSrc>>

\* lines[i] and lines[i:] of the code.
Line == lines[i + 1]
Rest == SubSeq(lines, i + 1, Len(lines))

InCase(c) ==
    /\ pc = "loop"
    /\ i < Len(lines)
    /\ Dispatch(i, Line) = c

\* Go indices base+1 .. base+cnt.
Indices(base, cnt) == [k \in 1..cnt |-> base + k]

\* The lines a block read: its header, the separator of a symbol block, its
\* members; after an error or panic, up to the line that raised it.
BlockTrace(r, isSym) ==
    [k \in 1..(IF r.kind = "ok" \/ r.adv < Len(Rest) THEN r.adv + 1 ELSE Len(Rest)) |->
        [idx |-> i + k - 1,
         role |-> IF k = 1 THEN (IF isSym THEN "symHeader" ELSE "sectHeader")
                  ELSE IF isSym /\ k = 2 THEN "separator"
                  ELSE IF isSym THEN "sym" ELSE "sect"]]

\* The effect of one iteration of the loop whose case yields r.
Apply(r, entries) ==
    /\ trace' = trace \o entries
    /\ IF r.kind = "ok"
       THEN /\ m' = r.m
            /\ i' = i + r.adv + 1
            /\ UNCHANGED <<pc, outcome, ret, panicMsg>>
       ELSE IF r.kind = "err"
       THEN /\ pc' = "done"
            /\ outcome' = "error"
            /\ ret' = ReturnErr(m, r.msg)
            /\ UNCHANGED <<m, i, panicMsg>>
       ELSE /\ pc' = "done"
            /\ outcome' = "panic"
            /\ panicMsg' = <<r.msg>>
            /\ UNCHANGED <<m, i, ret>>
    /\ UNCHANGED <<text, lines>>

One(role) == <<[idx |-> i, role |-> role]>>

CaseName ==
    /\ InCase("name")
    /\ Apply(caseName(m, Line), One("name"))
    /\ UNCHANGED <<warnings, sectSrc, symSrc>>

CaseTimestamp ==
    /\ InCase("timestamp")
    /\ Apply(caseTimestamp(m, Line), One("timestamp"))
    /\ UNCHANGED <<warnings, sectSrc, symSrc>>

CaseBaseAddr ==
    /\ InCase("baseaddr")
    /\ Apply(caseBaseAddr(m, Line), One("baseaddr"))
    /\ UNCHANGED <<warnings, sectSrc, symSrc>>

\* The iteration of a section block whose case yields r.
ApplySections(r) ==
    /\ Apply(r, BlockTrace(r, FALSE))
    /\ sectSrc' = IF r.kind = "ok" THEN sectSrc \o Indices(i, r.adv) ELSE sectSrc

CaseSections ==
    /\ InCase("sections")
    /\ ApplySections(caseSections(m, Rest))
    /\ UNCHANGED <<warnings, symSrc>>

\* The iteration of a symbol block whose case yields r.
ApplySymbols(r) ==
    /\ Apply(r, BlockTrace(r, TRUE))
    /\ symSrc' = IF r.kind = "ok" THEN symSrc \o Indices(i + 1, r.adv - 1) ELSE symSrc

CaseSymbols ==
    /\ InCase("symbols")
    /\ ApplySymbols(caseSymbols(m, Rest))
    /\ UNCHANGED <<warnings, sectSrc>>

CaseEntry ==
    /\ InCase("entry")
    /\ Apply(caseEntry(m, Line), One("entry"))
    /\ UNCHANGED <<warnings, sectSrc, symSrc>>

CaseFixups ==
    /\ InCase("fixups")
    /\ Apply(caseSkip(m, Line), One("fixups"))
    /\ UNCHANGED <<warnings, sectSrc, symSrc>>

CaseBlank ==
    /\ InCase("blank")
    /\ Apply(caseSkip(m, Line), One("blank"))
    /\ UNCHANGED <<warnings, sectSrc, symSrc>>

\* default: warn.Printf, and on to the next line.
CaseDefault ==
    /\ InCase("default")
    /\ Apply(caseDefault(m, Line), One("default"))
    /\ warnings' = Append(warnings, Line)
    /\ UNCHANGED <<sectSrc, symSrc>>

\* The loop ends: return m, nil.
Return ==
    /\ pc = "loop"
    /\ i >= Len(lines)
    /\ pc' = "done"
    /\ outcome' = "ok"
    /\ ret' = ReturnOk(m)
    /\ UNCHANGED <<text, lines, i, m, panicMsg, warnings, trace, sectSrc, symSrc>>

Next ==
    \/ ReadFile
    \/ ReadFileErr
    \/ ReadLines
    \/ ReadLinesErr
    \/ CaseName
    \/ CaseTimestamp
    \/ CaseBaseAddr
    \/ CaseSections
    \/ CaseSymbols
    \/ CaseEntry
    \/ CaseFixups
    \/ CaseBlank
    \/ CaseDefault
    \/ Return

Spec == Init /\ [][Next]_vars

\* ------------------------------------------------------------------------
\* Parse as a function of the text: the loop of Parse, the cases applied in
\* turn from i = 0 with an empty Map, for a reader that does not fail.
\* ------------------------------------------------------------------------

\* The body of the case named c.
caseStep(c, mp, line, rest) ==
    CASE c = "name" -> caseName(mp, line)
      [] c = "timestamp" -> caseTimestamp(mp, line)
      [] c = "baseaddr" -> caseBaseAddr(mp, line)
      [] c = "sections" -> caseSections(mp, rest)
      [] c = "symbols" -> caseSymbols(mp, rest)
      [] c = "entry" -> caseEntry(mp, line)
      [] c = "default" -> caseDefault(mp, line)
      [] OTHER -> caseSkip(mp, line)

RECURSIVE parseLoop(_, _, _)
RECURSIVE parseNext(_, _, _, _)
parseLoop(ls, k, mp) ==
    IF k >= Len(ls) THEN [outcome |-> "ok", ret |-> ReturnOk(mp)]
    ELSE parseNext(ls, k, mp,
                   caseStep(Dispatch(k, ls[k + 1]), mp, ls[k + 1], SubSeq(ls, k + 1, Len(ls))))
parseNext(ls, k, mp, r) ==
    IF r.kind = "ok" THEN parseLoop(ls, k + r.adv + 1, r.m)
    ELSE IF r.kind = "err" THEN [outcome |-> "error", ret |-> ReturnErr(mp, r.msg)]
    ELSE [outcome |-> "panic", ret |-> NoReturn]

Parse(t) == parseLoop(readLines(t), 0, EmptyMap)

\* ------------------------------------------------------------------------
\* The format of a MAP file as the specification describes it, independent
\* of the parser: the role of every line, and what makes a text valid.
\* ------------------------------------------------------------------------

Done == pc = "done"
\* Parse ran on the lines (the reader did not fail).
Parsed == pc = "done" /\ ret.err \notin {<<ErrReader>>, <<ErrFile>>}

\* The actions and the function agree on every input.
ActionsAgreeWithParse ==
    Parsed => [outcome |-> outcome, ret |-> ret] = Parse(text)

\* A hexadecimal numeral that fits 64 bits.
IsHexText(s) ==
    /\ Len(s) > 0
    /\ \A k \in 1..Len(s) : IsHexDigit(Char(s, k))
    /\ \A k \in 1..Len(s) : Len(s) - k + 1 > 16 => Char(s, k) = "0"

\* <hex>:<hex>, the text cut once at its first colon.
IsSegmentOffsetText(s) ==
    \E k \in 1..Len(s) :
        /\ Char(s, k) = ":"
        /\ IsHexText(SubSeq(s, 1, k - 1))
        /\ IsHexText(SubSeq(s, k + 1, Len(s)))

\* The role of line number k (counted from 1) when the lines before it left
\* the scan in the given mode.
RefRole(k, line, mode) ==
    IF k = 1 THEN "name"
    ELSE IF mode = "top" THEN
        (IF Fields(line) = SectionsHeader THEN "sectHeader"
         ELSE IF Fields(line) = PublicsHeader THEN "pubHeader"
         ELSE IF HasPrefix(line, "Static symbols") /\ ~HasPrefix(line, "Timestamp is ")
                 /\ ~HasPrefix(line, "Preferred load address is ") THEN "staticHeader"
         ELSE "top")
    ELSE IF mode \in {"pubSep", "staticSep"} THEN "sep"
    ELSE IF line = "" THEN "top"
    ELSE mode

RefMode(role, mode) ==
    CASE role \in {"name", "top"} -> "top"
      [] role = "sectHeader" -> "sect"
      [] role = "pubHeader" -> "pubSep"
      [] role = "staticHeader" -> "staticSep"
      [] role = "sep" -> (IF mode = "pubSep" THEN "pub" ELSE "static")
      [] OTHER -> mode

RECURSIVE RefRolesFrom(_, _, _)
RefRolesFrom(ls, k, mode) ==
    IF k > Len(ls) THEN << >>
    ELSE LET role == RefRole(k, ls[k], mode)
         IN  <<role>> \o RefRolesFrom(ls, k + 1, RefMode(role, mode))

\* The role of every line: "name", "top", "sectHeader", "sect", "pubHeader",
\* "staticHeader", "sep", "pub" or "static".
RefRoles(ls) == RefRolesFrom(ls, 1, "top")

\* The positions (from 1) of the lines whose role is in S, in file order.
RECURSIVE Positions(_, _, _)
Positions(roles, S, k) ==
    IF k > Len(roles) THEN << >>
    ELSE (IF roles[k] \in S THEN <<k>> ELSE << >>) \o Positions(roles, S, k + 1)

ValidTimestampLine(line) ==
    /\ Len(line) > TimestampSkip + 1
    /\ IsHexText(SubSeq(line, Len("Timestamp is ") + 1, TimestampSkip - 2))
    /\ SubSeq(line, TimestampSkip - 1, TimestampSkip) = " ("
    /\ Char(line, Len(line)) = ")"
    /\ ParseANSIC(SubSeq(line, TimestampSkip + 1, Len(line) - 1)).kind = "ok"

ValidTopLine(line) ==
    IF HasPrefix(line, "Timestamp is ") THEN ValidTimestampLine(line)
    ELSE IF HasPrefix(line, "Preferred load address is ")
         THEN IsHexText(From(line, Len("Preferred load address is ")))
    ELSE IF HasPrefix(line, "entry point at")
         THEN IsSegmentOffsetText(TrimSpace(From(line, Len("entry point at"))))
    ELSE TRUE

ValidSectionLine(line) ==
    LET f == Fields(line)
    IN  /\ Len(f) = 4
        /\ IsSegmentOffsetText(f[1])
        /\ HasSuffix(f[2], "H")
        /\ IsHexText(SubSeq(f[2], 1, Len(f[2]) - 1))

ValidSymbolLine(line) ==
    LET f == Fields(line)
    IN  /\ Len(f) = 4 \/ (Len(f) = 5 /\ f[4] = "f")
        /\ IsSegmentOffsetText(f[1])
        /\ IsHexText(f[3])

\* A valid MAP text: a name line, every header of a symbol block followed by
\* a blank line, every line of a block and every keyword line well formed.
ValidMapText(ls) ==
    LET roles == RefRoles(ls)
    IN  /\ Len(ls) >= 1
        /\ \A k \in 1..Len(ls) :
              CASE roles[k] = "top" -> ValidTopLine(ls[k])
                [] roles[k] = "sep" -> ls[k] = ""
                [] roles[k] \in {"pubHeader", "staticHeader"} -> k < Len(ls)
                [] roles[k] = "sect" -> ValidSectionLine(ls[k])
                [] roles[k] \in {"pub", "static"} -> ValidSymbolLine(ls[k])
                [] OTHER -> TRUE

\* ------------------------------------------------------------------------
\* C1
\* ------------------------------------------------------------------------

SectPos == Positions(RefRoles(lines), {"sect"}, 1)
PubPos == Positions(RefRoles(lines), {"pub"}, 1)
StaticPos == Positions(RefRoles(lines), {"static"}, 1)
SymPos == Positions(RefRoles(lines), {"pub", "static"}, 1)

\* Sects and Syms hold the section and symbol lines of the text, one each,
\* in file order.
InFileOrder ==
    /\ outcome = "ok"
    /\ Len(m.Sects) = Len(SectPos)
    /\ Len(m.Syms) = Len(PubPos) + Len(StaticPos)
    /\ \A j \in 1..Len(m.Sects) : m.Sects[j].Name = Fields(lines[SectPos[j]])[3]
    /\ \A j \in 1..Len(m.Syms) : m.Syms[j].MangledName = Fields(lines[SymPos[j]])[2]

\* No public symbol line comes after a static one.
PublicsBeforeStatics ==
    \A a \in 1..Len(PubPos), b \in 1..Len(StaticPos) : PubPos[a] < StaticPos[b]

\* C1 as stated: for every valid MAP text with N section lines, M public and
\* K static symbol lines, Parse returns a Map with N sections and M + K
\* symbols in file order, the first M symbols not static and the trailing K
\* static.
C1_PublicsFirst ==
    (Parsed /\ ValidMapText(lines)) =>
        /\ InFileOrder
        /\ ret.map = <<m>>
        /\ \A j \in 1..Len(m.Syms) : m.Syms[j].IsStatic = (j > Len(PubPos))

\* C1 amended: for every valid MAP text, Parse returns a Map with N sections
\* and M + K symbols in file order, and a symbol is static exactly when its
\* line stands in a block opened by a "Static symbols" header; the first M
\* are the public ones and the trailing K the static ones when no public
\* symbol line follows a static one in the text.
C1_StaticByBlock ==
    (Parsed /\ ValidMapText(lines)) =>
        /\ InFileOrder
        /\ ret.map = <<m>>
        /\ \A j \in 1..Len(m.Syms) :
              m.Syms[j].IsStatic = (RefRoles(lines)[SymPos[j]] = "static")
        /\ PublicsBeforeStatics =>
              \A j \in 1..Len(m.Syms) : m.Syms[j].IsStatic = (j > Len(PubPos))

\* A valid text with sections, public and static symbols has been parsed,
\* its static block standing before a public one.
C1_Witness ==
    /\ Parsed /\ ValidMapText(lines)
    /\ outcome = "ok"
    /\ Len(SectPos) >= 1 /\ Len(PubPos) >= 2 /\ Len(StaticPos) >= 1
    /\ ~PublicsBeforeStatics

\* ------------------------------------------------------------------------
\* The lines Parse has read, from the history variable trace.
\* ------------------------------------------------------------------------

LastEntry == trace[Len(trace)]
LineOf(e) == lines[e.idx + 1]
Entries(roles) == {k \in 1..Len(trace) : trace[k].role \in roles}

\* ------------------------------------------------------------------------
\* C2
\* ------------------------------------------------------------------------

\* C2: whenever Parse (and so ParseFile, ParseBytes, ParseString) returns a
\* non-nil error, the Map it returns is nil, whatever had been collected.
C2_NoMapWithError ==
    /\ ret.err # Nil => ret.map = Nil
    /\ outcome = "error" => ret.err # Nil /\ ret.map = Nil
    /\ outcome = "ok" => ret.err = Nil /\ ret.map = <<m>>

\* An error was returned for a line read after sections or symbols had been
\* collected.
C2_Witness ==
    /\ outcome = "error"
    /\ ret.err # Nil
    /\ Len(m.Sects) + Len(m.Syms) > 0
    /\ Len(trace) > 0

\* ------------------------------------------------------------------------
\* C3
\* ------------------------------------------------------------------------

\* The text s, cut once at its first colon, has a part that is no valid
\* hexadecimal numeral (a text without colon is one part).
BadSegmentOffset(s) ==
    IF IndexOf(s, ":") = Len(s) THEN ~IsHexText(s)
    ELSE \/ ~IsHexText(SubSeq(s, 1, IndexOf(s, ":")))
         \/ ~IsHexText(From(s, IndexOf(s, ":") + 1))

\* The line, read in the given role, carries a numeric field that is not
\* valid hexadecimal.
BadNumericField(role, line) ==
    LET f == Fields(line)
    IN  CASE role = "baseaddr" -> ~IsHexText(From(line, Len("Preferred load address is ")))
          [] role = "entry" -> BadSegmentOffset(TrimSpace(From(line, Len("entry point at"))))
          [] role = "sect" -> \/ BadSegmentOffset(f[1])
                              \/ Len(f) >= 2 /\ ~IsHexText(TrimSuffix(f[2], "H"))
          [] role = "sym" -> \/ BadSegmentOffset(f[1])
                             \/ Len(f) >= 3 /\ ~IsHexText(f[3])
          [] OTHER -> FALSE

\* C3 as stated: a base-address, section, symbol or entry-point line with a
\* field that is not valid hexadecimal makes Parse return an error and no
\* Map, and no line after it is read.
C3_NumericErrorsAbort ==
    Parsed =>
        \A k \in 1..Len(trace) :
            BadNumericField(trace[k].role, LineOf(trace[k])) =>
                /\ outcome = "error"
                /\ ret.map = Nil
                /\ k = Len(trace)

\* ------------------------------------------------------------------------
\* C4
\* ------------------------------------------------------------------------

\* C4 as stated: when the line after a symbol-block header is not blank, or
\* there is no such line, Parse returns the error "unexpected line between
\* header and list of symbols" and no Map.
C4_SeparatorRequired ==
    Parsed =>
        \A k \in Entries({"symHeader"}) :
            (trace[k].idx + 2 > Len(lines) \/ lines[trace[k].idx + 2] # "") =>
                /\ outcome = "error"
                /\ ret = [map |-> Nil, err |-> <<ErrSeparator>>]

\* ------------------------------------------------------------------------
\* C5
\* ------------------------------------------------------------------------

\* IsFunc of every Symbol of the Map against the line it came from: false
\* for 4 fields, true for 5 fields, and then the tag is "f".
IsFuncByTag ==
    /\ Len(symSrc) = Len(m.Syms)
    /\ \A j \in 1..Len(m.Syms) :
          LET f == Fields(lines[symSrc[j] + 1])
          IN  /\ Len(f) = 4 => ~m.Syms[j].IsFunc
              /\ Len(f) = 5 => m.Syms[j].IsFunc /\ f[4] = "f"

\* A symbol line of 5 fields whose tag is not "f".
UnknownTag(e) ==
    /\ e.role = "sym"
    /\ Len(Fields(LineOf(e))) = 5
    /\ Fields(LineOf(e))[4] # "f"

JunkLines == {"Line numbers for baz.obj(baz.cpp) segment .text",
              "0001:00000000 10H .text CODE",
              "Exports"}

\* The lines with the line junk put at Go index p.
InsertAt(ls, p, junk) == SubSeq(ls, 1, p) \o <<junk>> \o SubSeq(ls, p + 1, Len(ls))

\* The roles of the lines that the switch of Parse reads and that open no
\* block.
PlainRoles == {"name", "timestamp", "baseaddr", "entry", "fixups", "blank", "default"}

\* A line put at Go index p is read by the switch of Parse: the line before
\* it was, and opened no block.
TopLevelIndex(p) ==
    \E k \in 1..Len(trace) : trace[k].idx = p - 1 /\ trace[k].role \in PlainRoles

\* C6: a non-blank line that matches no keyword, put at top level (not at
\* line 0, not inside a block), does not make Parse fail and leaves the
\* returned Map as it is without the line.
C6_UnrecognizedLineTolerated ==
    Parsed =>
        \A p \in 1..Len(lines) : \A junk \in JunkLines :
            TopLevelIndex(p) =>
                parseLoop(InsertAt(lines, p, junk), 0, EmptyMap)
                    = [outcome |-> outcome, ret |-> ret]

\* Parse returned a Map with sections or symbols for a text that has a
\* top-level position after them, and logged a line it did not recognize.
C6_Witness ==
    /\ Parsed
    /\ outcome = "ok"
    /\ Len(m.Sects) + Len(m.Syms) > 0
    /\ TopLevelIndex(Len(lines))
    /\ Len(warnings) > 0

\* ------------------------------------------------------------------------
\* C7
\* ------------------------------------------------------------------------

\* Number of lines at the end of the text that have the role of the last.
RECURSIVE TailRun(_, _)
TailRun(roles, k) ==
    IF k >= 1 /\ roles[k] = roles[Len(roles)] THEN 1 + TailRun(roles, k - 1) ELSE 0

\* The text ends inside a block, after a section or symbol line.
EndsInBlock ==
    /\ Len(lines) > 0
    /\ RefRoles(lines)[Len(lines)] \in {"sect", "pub", "static"}

\* C7: when a valid text ends inside a section or symbol block, Parse
\* succeeds and the Map ends with the lines of that block, in order.
C7_EndOfInputEndsBlock ==
    (Parsed /\ ValidMapText(lines) /\ EndsInBlock) =>
        LET roles == RefRoles(lines)
            cnt == TailRun(roles, Len(lines))
            first == Len(lines) - cnt
        IN  /\ outcome = "ok"
            /\ ret.map = <<m>>
            /\ i = Len(lines)
            /\ IF roles[Len(lines)] = "sect"
               THEN /\ Len(m.Sects) >= cnt
                    /\ \A t \in 1..cnt :
                          m.Sects[Len(m.Sects) - cnt + t].Name = Fields(lines[first + t])[3]
               ELSE /\ Len(m.Syms) >= cnt
                    /\ \A t \in 1..cnt :
                          /\ m.Syms[Len(m.Syms) - cnt + t].MangledName
                                = Fields(lines[first + t])[2]
                          /\ m.Syms[Len(m.Syms) - cnt + t].IsStatic
                                = (roles[Len(lines)] = "static")

\* A valid text that ends inside a section block has been parsed.
C7_Witness ==
    /\ Parsed /\ ValidMapText(lines) /\ EndsInBlock
    /\ RefRoles(lines)[Len(lines)] = "sect"
    /\ outcome = "ok"
    /\ Len(m.Sects) > 0

\* ------------------------------------------------------------------------
\* C8
\* ------------------------------------------------------------------------

\* C8: the first line, trimmed, becomes Name whatever its text, nothing
\* else comes of it (no field, no block, no error), and no later line
\* changes Name.
C8_FirstLineIsName ==
    Len(trace) >= 1 =>
        /\ trace[1] = [idx |-> 0, role |-> "name"]
        /\ m.Name = TrimSpace(text[1])
        /\ Len(trace) = 1 /\ ~Done =>
              /\ m = [EmptyMap EXCEPT !.Name = TrimSpace(text[1])]
              /\ i = 1
              /\ outcome = "running"
        /\ outcome = "ok" => ret.map[1].Name = TrimSpace(text[1])

\* A Map was returned for a text of several lines whose first line has the
\* text of a keyword line.
C8_Witness ==
    /\ outcome = "ok"
    /\ Len(lines) > 1
    /\ Dispatch(1, lines[1]) \in {"timestamp", "sections", "symbols", "entry"}
    /\ m.Name = lines[1]

\* ------------------------------------------------------------------------
\* C9
\* ------------------------------------------------------------------------

\* The text handed to parseSegmentOffset by the entry-point case.
EntryText(e) == TrimSpace(TrimPrefix(LineOf(e), "entry point at"))

\* C9 as stated: for every text that is not <hex>:<hex> (no colon, a half
\* that is not hexadecimal, a further colon in the offset half),
\* parseSegmentOffset returns an error and Parse returns it.
C9_MalformedSegmentOffsetIsError ==
    Parsed =>
        \A k \in Entries({"entry"}) :
            ~IsSegmentOffsetText(EntryText(trace[k])) =>
                /\ outcome = "error"
                /\ ret.map = Nil
                /\ ret.err # Nil

\* ------------------------------------------------------------------------
\* C10
\* ------------------------------------------------------------------------

\* Number of trailing characters of s that differ from the character c.
RECURSIVE LastIndexOf(_, _)
LastIndexOf(s, c) ==
    IF Len(s) = 0 \/ Char(s, Len(s)) = c THEN 0
    ELSE 1 + LastIndexOf(SubSeq(s, 1, Len(s) - 1), c)

\* The line has a parenthesised part.
HasParens(line) ==
    /\ IndexOf(line, "(") < Len(line)
    /\ LastIndexOf(line, ")") < Len(line)
    /\ IndexOf(line, "(") + 1 < Len(line) - LastIndexOf(line, ")")

\* The text between the first "(" and the last ")" of the line.
ParenText(line) == SubSeq(line, IndexOf(line, "(") + 2, Len(line) - LastIndexOf(line, ")") - 1)

\* C10 as stated: a top-level line that begins with "Timestamp is " either
\* sets Date to the date between its parentheses or makes Parse return an
\* error and no Map, whatever follows the keyword.
C10_TimestampDateOrError ==
    (Len(trace) > 0 /\ LastEntry.role = "timestamp") =>
        \/ /\ outcome = "error"
           /\ ret.map = Nil
        \/ /\ outcome \in {"running", "ok"}
           /\ HasParens(LineOf(LastEntry))
           /\ ParseANSIC(ParenText(LineOf(LastEntry))) = Ok(m.Date)

\* ------------------------------------------------------------------------
\* C11
\* ------------------------------------------------------------------------

\* Parse runs to its end: the program is sequential, and a step that can be
\* taken is taken. This is WF_vars(Next) with ENABLED <<Next>>_vars written
\* out: a step can be taken in every state but those where pc = "done"
\* (Dispatch is total, and Return takes over at the end of the lines).
FairSpec == Spec /\ ([]<>(pc = "done") \/ []<><<Next>>_vars)

\* The roles of the lines read inside a block, by parseSections and
\* parseSymbols.
MemberRoles == {"separator", "sect", "sym"}

\* The lines read so far are the lines 0 .. Len(trace)-1, each once and in
\* order, and the loop stands at the first line not read.
ReadOnceInOrder ==
    /\ \A k \in 1..Len(trace) : trace[k].idx = k - 1
    /\ Len(trace) <= Len(lines)
    /\ pc = "loop" => i = Len(trace)
    /\ outcome = "ok" => Len(trace) = Len(lines)

\* Every line read inside a block follows the header of its block, with
\* lines of that block only in between, and was read as a member because of
\* the block, whatever its text.
MembersInOneBlock ==
    \A k \in 1..Len(trace) :
        /\ trace[k].role = "sect" =>
              k > 1 /\ trace[k - 1].role \in {"sectHeader", "sect"}
        /\ trace[k].role = "separator" =>
              k > 1 /\ trace[k - 1].role = "symHeader"
        /\ trace[k].role = "sym" =>
              k > 1 /\ trace[k - 1].role \in {"separator", "sym"}
        /\ trace[k].role \in {"sectHeader", "symHeader"} =>
              Dispatch(trace[k].idx, LineOf(trace[k])) \in {"sections", "symbols"}
        /\ trace[k].role \notin MemberRoles \cup {"sectHeader", "symHeader"} =>
              Dispatch(trace[k].idx, LineOf(trace[k])) = trace[k].role

\* The line read after the last line of a block is the blank line that ends
\* the block, read by the switch of Parse, and the line after that one is
\* read by the switch too.
ResumesAtBlankLine ==
    \A k \in 1..(Len(trace) - 1) :
        /\ trace[k].role = "symHeader" => trace[k + 1].role = "separator"
        /\ (trace[k].role \in {"sectHeader", "sect", "separator", "sym"}
            /\ trace[k + 1].role \notin MemberRoles) =>
              /\ trace[k + 1].role = "blank"
              /\ LineOf(trace[k + 1]) = ""
              /\ k + 2 <= Len(trace) =>
                    /\ trace[k + 2].idx = trace[k].idx + 2
                    /\ trace[k + 2].role \notin MemberRoles

\* An iteration of the loop that is followed by another moves the index
\* forward, by the number of lines it read.
IndexIncreases ==
    (pc = "loop" /\ pc' = "loop") =>
        /\ i' > i
        /\ i' - i = Len(trace') - Len(trace)

\* C11: the scan is one forward pass: the line index strictly increases on
\* every iteration of the loop and Parse terminates; every line is read
\* once, by the switch of Parse or as header, separator or member of one
\* block; a block member is not dispatched again; after a block the scan
\* resumes at the blank line that ends it and skips no line after it.
C11_SingleForwardPass ==
    /\ [](ReadOnceInOrder /\ MembersInOneBlock /\ ResumesAtBlankLine)
    /\ [][IndexIncreases]_vars
    /\ <>Done

\* Parse returned a Map for a text with a section block, the blank line that
\* ends it and a keyword line after that.
C11_Witness ==
    /\ outcome = "ok"
    /\ \E k \in 1..(Len(trace) - 2) :
          /\ trace[k].role = "sect"
          /\ trace[k + 1].role = "blank"
          /\ trace[k + 2].role \in {"entry", "baseaddr", "timestamp", "symHeader", "sectHeader"}

\* ------------------------------------------------------------------------
\* C12
\* ------------------------------------------------------------------------

\* The size field of the line the j-th Section came from, less one trailing
\* "H".
SizeDigits(j) == TrimSuffix(Fields(lines[sectSrc[j] + 1])[2], "H")

\* The value of a hexadecimal numeral, as a canonical numeral.
HexValue(s) == Canon(Fold(s))

\* C12 as stated: the Size of every Section is non-negative and is the
\* value of the hexadecimal digits of the size field less exactly one
\* trailing "H", for every value that fits 64 unsigned bits, 2^63 and above
\* included; a field that is not hexadecimal after that yields no Section.
C12_SizeIsHexValue ==
    /\ Len(sectSrc) = Len(m.Sects)
    /\ \A j \in 1..Len(m.Sects) :
          /\ IsHexText(SizeDigits(j))
          /\ Char(m.Sects[j].Size, 1) # "-"
          /\ m.Sects[j].Size = HexValue(SizeDigits(j))

====
